---- MODULE Spec2Model ----
(***************************************************************************)
(* GeoMapCam: the location-tagged photo capture-and-retrieval workflow.    *)
(*                                                                         *)
(* Three units are modelled from src/unnamed/part_000:                     *)
(*   usePermissions (lines 674-740)  the Permission Gate, one hook         *)
(*                                   instance per screen;                  *)
(*   GeoCamera      (lines 327-555)  the capture screen and takePhoto;     *)
(*   GeoMapView     (lines 37-196)   the gallery and loadPhotos.           *)
(*                                                                         *)
(* Every await of the source is a suspension point: the code up to the     *)
(* await is one action (it issues the native call), the native call's      *)
(* completion together with the code up to the next await is the next.     *)
(* React state is read as committed: a handler runs on the closure of the  *)
(* last committed render, and every setter of a handler or continuation    *)
(* is committed before the next event is delivered.                        *)
(*                                                                         *)
(* Abstractions: a fix is its latitude and longitude (timestamp and date   *)
(* string are dropped), coordinates are small integers, image dimensions   *)
(* are dropped, and a string built by concatenation is the sequence of its *)
(* parts.  The device list holds a back and a front camera, each with a    *)
(* photo format.  An optional value is <<>> (null / undefined) or <<v>>.   *)
(***************************************************************************)
EXTENDS Integers, Sequences, FiniteSets, Bags, TLC

\* ------------------------------------------------------------------ bounds
MaxCoord == 1       \* coordinates range over -MaxCoord..MaxCoord
MaxStore == 3       \* entries the photo store holds at most
MaxPresses == 3     \* shutter presses delivered to takePhoto
MaxTakes == 2       \* takePhoto invocations suspended at an await at once
MaxPermCalls == 3   \* requestPermissions invocations suspended at once
MaxVision == 1      \* useCameraPermission requests awaiting the OS prompt
MaxPans == 1        \* regions the user can pan the map to
MaxUris == 2        \* distinct image uris among the entries a query returns
MaxReturned == 2    \* entries of a returned list whose uris are unconstrained

\* ------------------------------------------------------- program constants
QueryLimit == 50    \* CameraRoll.getPhotos({first: 50, ...})

Null == <<>>
Some(v) == <<v>>
Val(o) == o[1]

Coords == (0 - MaxCoord)..MaxCoord
Positions == {"back", "front"}
Screens == {"camera", "map"}
Capabilities == {"camera", "location"}
Statuses == {"granted", "denied"}
Paths == {"photo.jpg"}

Fix(lat, lon) == [latitude |-> lat, longitude |-> lon]
Fixes == [latitude : 0..MaxCoord, longitude : 0..MaxCoord]

\* The fix getCurrentLocation resolves with when the provider errors.
SentinelFix == Fix(0, 0)

FailedMessage == "Failed to take photo. Please try again."
CameraErrorMessage == "camera runtime error"

VARIABLES
    platformOS,          \* Platform.OS
    osPerm,              \* the OS's permission status of each capability
    store,               \* the GeoMapCamera album, most recent first
    camMounted,          \* GeoCamera is mounted
    hasPermission,       \* useCameraPermission().hasPermission
    visionPending,       \* useCameraPermission().requestPermission calls pending
    capturedImage,       \* GeoCamera state
    location,            \* GeoCamera state
    isCapturing,         \* GeoCamera state
    cameraPosition,      \* GeoCamera state
    cameraError,         \* GeoCamera state
    takes,               \* suspended takePhoto invocations
    lastTake,            \* how the last completed takePhoto invocation ended
    presses,             \* takePhoto invocations so far
    nativeCalls,         \* native calls issued by takePhoto, per kind
    permissionsGranted,  \* usePermissions state, per screen
    permCalls,           \* suspended requestPermissions invocations
    lastPerm,            \* how the last completed requestPermissions ended
    mapMounted,          \* GeoMapView is mounted
    photos,              \* GeoMapView state
    selectedPhoto,       \* GeoMapView state
    region,              \* GeoMapView state
    queries,             \* CameraRoll.getPhotos calls pending
    lastLoad             \* how the last completed loadPhotos ended

envVars == <<platformOS, osPerm, store>>
cameraVars == <<camMounted, hasPermission, visionPending, capturedImage, location,
                isCapturing, cameraPosition, cameraError, takes, lastTake, presses,
                nativeCalls>>
gateVars == <<permissionsGranted, permCalls, lastPerm>>
mapVars == <<mapMounted, photos, selectedPhoto, region, queries, lastLoad>>
vars == <<envVars, cameraVars, gateVars, mapVars>>

\* ------------------------------------------------------------ environment
\* useCameraDevices(): the device list (a back and a front camera).
Devices == Positions

\* A raw store entry's location metadata: node.location is null, or an object
\* whose latitude and longitude are each present or absent.
OptCoords == {Null} \cup {Some(c) : c \in Coords}
NoLocation == Null
Located(lat, lon) == Some([latitude |-> Some(lat), longitude |-> Some(lon)])
StoreLocations == {NoLocation} \cup {Some(l) : l \in [latitude : OptCoords, longitude : OptCoords]}

\* What the saved file carries as location metadata.  CameraRoll.save is given
\* the file path alone and Camera.takePhoto is given no fix, so the metadata is
\* whatever the camera wrote: nothing, or a position of its own.
ExifLocations == {NoLocation} \cup {Located(c, c) : c \in 1..MaxCoord}

\* The asset the store creates for a saved file: a fresh uri, the file it was
\* saved from, and the file's own location metadata.
Asset(n, source, loc) == [uri |-> <<"ph://", n>>, source |-> source, location |-> loc]

\* CameraRoll.save(filePath, {type, album}): the new asset is the most recent.
CameraRollSave(filePath, exif) == <<Asset(Len(store) + 1, filePath, exif)>> \o store

\* ---------------------------------------------------------------- GeoCamera
\* const device = devices?.find((d) => d.position === cameraPosition)
device == IF cameraPosition \in Devices THEN Some(cameraPosition) ELSE Null

\* const format = device?.formats.find(...) || device?.formats[0]
format == IF device = Null THEN Null ELSE Some("photo")

\* if (!hasPermission) return <permission message and Grant Permissions button>
PermissionScreen == camMounted /\ ~hasPermission

\* if (capturedImage) return <preview and Retake button>
PreviewScreen == camMounted /\ hasPermission /\ capturedImage # Null

\* The Camera widget with the Flip and the capture button.
CameraScreen ==
    /\ camMounted
    /\ hasPermission
    /\ capturedImage = Null
    /\ device # Null
    /\ format # Null

\* cameraRef.current: set while the Camera widget is mounted.
cameraRefCurrent == IF CameraScreen THEN Some("Camera") ELSE Null

\* function alert(arg0) { throw new Error('Function not implemented.'); }
alert(arg0) == [throws |-> TRUE, message |-> "Function not implemented."]

FreeTake == [pc |-> "free", locationData |-> SentinelFix, locFailed |-> FALSE, filePath |-> <<>>]
ActiveTakes == {i \in 1..MaxTakes : takes[i].pc # "free"}
FreeTakeSlot == CHOOSE i \in 1..MaxTakes : takes[i].pc = "free" /\ \A j \in 1..(i - 1) : takes[j].pc # "free"

NoTake == [outcome |-> "none", locFailed |-> FALSE, shot |-> FALSE, photoOk |-> FALSE, saveFailed |-> FALSE]
Ended(outcome, locFailed, shot, photoOk, saveFailed) ==
    [outcome |-> outcome, locFailed |-> locFailed, shot |-> shot, photoOk |-> photoOk, saveFailed |-> saveFailed]

\* Geolocation.getCurrentPosition's outcomes: a position, or an error (the
\* provider failed, or the 15 s timeout passed).
LocationOutcomes == {[kind |-> "position", coords |-> f] : f \in Fixes} \cup {[kind |-> "error", coords |-> SentinelFix]}

\* A variant of getCurrentLocation that rejects on a provider error.
GetCurrentLocationRejecting(outcome) ==
    IF outcome.kind = "position"
    THEN [settled |-> "resolved", value |-> outcome.coords]
    ELSE [settled |-> "rejected", value |-> SentinelFix]

\* getCurrentLocation: resolves with the position, and on an error resolves
\* with the default location instead of rejecting.
GetCurrentLocation(outcome) ==
    IF outcome.kind = "position"
    THEN [settled |-> "resolved", value |-> outcome.coords]
    ELSE [settled |-> "resolved", value |-> Fix(0, 0)]

\* A variant of the re-entrancy guard that forgets the in-flight flag.
TakePhotoGuardWithoutFlag == cameraRefCurrent = Null

\* if (!cameraRef.current || isCapturing) return;
TakePhotoGuard == cameraRefCurrent = Null \/ isCapturing

\* Camera.takePhoto's outcomes: it throws, or returns no photo, a photo with an
\* empty path, or a photo with a path.
ShutterOutcomes ==
    {[kind |-> "throws", path |-> ""], [kind |-> "undefined", path |-> ""], [kind |-> "photo", path |-> ""]}
        \cup {[kind |-> "photo", path |-> p] : p \in Paths}

\* A variant of the validation that accepts a photo with an empty path.
PhotoUsableAnyPath(outcome) == outcome.kind = "photo"

\* if (!photo || !photo.path) throw new Error('Failed to capture photo')
PhotoUsable(outcome) == outcome.kind = "photo" /\ outcome.path # ""

\* Platform.OS === 'android' ? `file://${photo.path}` : photo.path
FilePath(path) == IF platformOS = "android" THEN <<"file://", path>> ELSE <<path>>

\* A variant of the save step whose failure reaches the outer catch.
SaveErrorPropagates(ok) == ~ok

\* try { await CameraRoll.save(...) } catch (saveError) { console.error(...) }:
\* whether the save step throws into the outer try.
SaveThrows(ok) == FALSE

\* A variant of the error path without the finally block.
TakePhotoCatchWithoutFinally(i, locFailed, shot, photoOk, saveFailed) ==
    /\ cameraError' = Some(FailedMessage)
    /\ isCapturing' = isCapturing
    /\ takes' = [takes EXCEPT ![i] = FreeTake]
    /\ lastTake' = Ended("rejected", locFailed, shot, photoOk, saveFailed)

\* catch (error) { console.error; setCameraError(...); alert(...) } finally
\* { setIsCapturing(false) }: the message is set, alert throws out of the
\* catch block, the finally block runs and the promise rejects.
TakePhotoCatch(i, locFailed, shot, photoOk, saveFailed) ==
    /\ cameraError' = Some(FailedMessage)
    /\ isCapturing' = FALSE
    /\ takes' = [takes EXCEPT ![i] = FreeTake]
    /\ lastTake' = Ended(IF alert(FailedMessage).throws THEN "rejected" ELSE "failed",
                         locFailed, shot, photoOk, saveFailed)

\* takePhoto, invoked by the capture button's onPress, up to its first await.
\* The button exists on the camera screen only; its disabled prop is not
\* relied on, the guard of takePhoto is.  The camera screen is rendered with
\* hasPermission true only, so the requestPermission branch is never entered
\* from the button.
TakePhoto ==
    /\ CameraScreen
    /\ presses < MaxPresses
    /\ presses' = presses + 1
    /\ IF ~hasPermission
       THEN \* await requestPermission()
            /\ takes' = [takes EXCEPT ![FreeTakeSlot] = [FreeTake EXCEPT !.pc = "permission"]]
            /\ UNCHANGED <<cameraError, isCapturing, lastTake, nativeCalls>>
       ELSE IF TakePhotoGuard
       THEN /\ lastTake' = Ended("noop", FALSE, FALSE, FALSE, FALSE)
            /\ UNCHANGED <<cameraError, isCapturing, takes, nativeCalls>>
       ELSE \* setCameraError(null); setIsCapturing(true); await getCurrentLocation()
            /\ \E i \in 1..MaxTakes : takes[i].pc = "free"
            /\ cameraError' = Null
            /\ isCapturing' = TRUE
            /\ takes' = [takes EXCEPT ![FreeTakeSlot] = [FreeTake EXCEPT !.pc = "location"]]
            /\ nativeCalls' = [nativeCalls EXCEPT !.location = @ + 1]
            /\ UNCHANGED lastTake
    /\ UNCHANGED <<envVars, camMounted, hasPermission, visionPending, capturedImage,
                   location, cameraPosition, gateVars, mapVars>>

\* The location request settles: setLocation(locationData), then
\* cameraRef.current.takePhoto(...) is called (a TypeError when the ref is null).
LocationDone(i) ==
    /\ takes[i].pc = "location"
    /\ \E outcome \in LocationOutcomes :
        LET got == GetCurrentLocation(outcome)
            failed == outcome.kind = "error"
        IN  IF got.settled = "rejected"
            THEN /\ TakePhotoCatch(i, failed, FALSE, FALSE, FALSE)
                 /\ UNCHANGED <<location, nativeCalls>>
            ELSE /\ location' = Some(got.value)
                 /\ IF cameraRefCurrent = Null
                    THEN /\ TakePhotoCatch(i, failed, FALSE, FALSE, FALSE)
                         /\ UNCHANGED nativeCalls
                    ELSE /\ takes' = [takes EXCEPT ![i] = [@ EXCEPT !.pc = "shutter",
                                                             !.locationData = got.value,
                                                             !.locFailed = failed]]
                         /\ nativeCalls' = [nativeCalls EXCEPT !.shutter = @ + 1]
                         /\ UNCHANGED <<cameraError, isCapturing, lastTake>>
    /\ UNCHANGED <<envVars, camMounted, hasPermission, visionPending, capturedImage,
                   cameraPosition, presses, gateVars, mapVars>>

\* The shutter call settles: the photo is validated and CameraRoll.save called.
ShutterDone(i) ==
    /\ takes[i].pc = "shutter"
    /\ \E outcome \in ShutterOutcomes :
        IF PhotoUsable(outcome)
        THEN /\ takes' = [takes EXCEPT ![i] = [@ EXCEPT !.pc = "save", !.filePath = FilePath(outcome.path)]]
             /\ nativeCalls' = [nativeCalls EXCEPT !.save = @ + 1]
             /\ UNCHANGED <<cameraError, isCapturing, lastTake>>
        ELSE /\ TakePhotoCatch(i, takes[i].locFailed, TRUE, FALSE, FALSE)
             /\ UNCHANGED nativeCalls
    /\ UNCHANGED <<envVars, camMounted, hasPermission, visionPending, capturedImage,
                   location, cameraPosition, presses, gateVars, mapVars>>

\* The save call settles (the store is full: it can only fail): the preview
\* record is set and the finally block clears the in-flight flag.
SaveDone(i) ==
    /\ takes[i].pc = "save"
    /\ \E ok \in BOOLEAN, exif \in ExifLocations :
        /\ ok => Len(store) < MaxStore
        /\ ~ok => exif = NoLocation
        /\ store' = IF ok THEN CameraRollSave(takes[i].filePath, exif) ELSE store
        /\ IF SaveThrows(ok)
           THEN /\ TakePhotoCatch(i, takes[i].locFailed, TRUE, TRUE, TRUE)
                /\ UNCHANGED capturedImage
           ELSE /\ capturedImage' = Some([uri |-> takes[i].filePath, location |-> takes[i].locationData])
                /\ isCapturing' = FALSE
                /\ takes' = [takes EXCEPT ![i] = FreeTake]
                /\ lastTake' = Ended("preview", takes[i].locFailed, TRUE, TRUE, ~ok)
                /\ UNCHANGED cameraError
    /\ UNCHANGED <<platformOS, osPerm, camMounted, hasPermission, visionPending,
                   location, cameraPosition, presses, nativeCalls, gateVars, mapVars>>

\* A variant of the updater that always selects the front camera.
FlippedToFront(prev) == "front"

\* setCameraPosition((prev) => (prev === 'back' ? 'front' : 'back'))
Flipped(prev) == IF prev = "back" THEN "front" ELSE "back"

\* toggleCameraType, the Flip button's onPress.
ToggleCameraType ==
    /\ CameraScreen
    /\ cameraPosition' = Flipped(cameraPosition)
    /\ UNCHANGED <<envVars, camMounted, hasPermission, visionPending, capturedImage,
                   location, isCapturing, cameraError, takes, lastTake, presses,
                   nativeCalls, gateVars, mapVars>>

\* retakePhoto, the Retake button's onPress: setCapturedImage(null).
RetakePhoto ==
    /\ PreviewScreen
    /\ capturedImage' = Null
    /\ UNCHANGED <<envVars, camMounted, hasPermission, visionPending, location,
                   isCapturing, cameraPosition, cameraError, takes, lastTake, presses,
                   nativeCalls, gateVars, mapVars>>

\* The Camera widget's onError: setCameraError(error.message).
CameraOnError ==
    /\ CameraScreen
    /\ cameraError' = Some(CameraErrorMessage)
    /\ UNCHANGED <<envVars, camMounted, hasPermission, visionPending, capturedImage,
                   location, isCapturing, cameraPosition, takes, lastTake, presses,
                   nativeCalls, gateVars, mapVars>>

\* ------------------------------------------------------------- permissions
\* Platform.select({android: ..., ios: ..., default: undefined})
PlatformSelect(android, ios) ==
    IF platformOS = "android" THEN Some(android)
    ELSE IF platformOS = "ios" THEN Some(ios)
    ELSE Null

cameraPermission == PlatformSelect("android.permission.CAMERA", "ios.permission.CAMERA")
locationPermission ==
    PlatformSelect("android.permission.ACCESS_FINE_LOCATION", "ios.permission.LOCATION_WHEN_IN_USE")

\* The OS's answer to a request: granted without a prompt when the capability
\* is granted already, otherwise what the user chooses.
RequestAnswers(capability) ==
    IF osPerm[capability] = "granted" THEN {"granted"} ELSE {"granted", "denied"}

\* A native permission call settles with a status or throws.
Thrown == "thrown"
CheckOutcomes(capability) == {osPerm[capability], Thrown}
RequestOutcomes(capability) == RequestAnswers(capability) \cup {Thrown}

\* A suspended requestPermissions invocation: the await it is at, the hook
\* instance it belongs to and its locals.  permCalls is the bag of them.
NewPerm(hook) == [pc |-> "checkCamera", hook |-> hook, cameraStatus |-> "unset",
                  locationStatus |-> "unset", finalCameraStatus |-> "unset"]
Suspended(calls, call) == calls (+) SetToBag({call})
Resumed(calls, call) == calls (-) SetToBag({call})

NoPerm == [how |-> "none", hook |-> "camera", returned |-> FALSE, cameraStatus |-> "unset",
           locationStatus |-> "unset", finalCameraStatus |-> "unset",
           finalLocationStatus |-> "unset", notice |-> FALSE]
PermEnded(how, returned, call, finalCamera, finalLocation, notice) ==
    [how |-> how, hook |-> call.hook, returned |-> returned, cameraStatus |-> call.cameraStatus,
     locationStatus |-> call.locationStatus, finalCameraStatus |-> finalCamera,
     finalLocationStatus |-> finalLocation, notice |-> notice]

\* requestPermissions up to its first await, as a function of the suspended
\* calls and the last summary: without permission definitions it logs and
\* returns false; otherwise it awaits check(cameraPermission).
Requested(gate, hook) ==
    IF cameraPermission = Null \/ locationPermission = Null
    THEN [gate EXCEPT !.last = PermEnded("undefined", FALSE, NewPerm(hook), "unset", "unset", FALSE)]
    ELSE [gate EXCEPT !.calls = Suspended(gate.calls, NewPerm(hook))]

\* Whether requestPermissions can be started n more times.
CanRequest(n) ==
    cameraPermission = Null \/ locationPermission = Null \/ BagCardinality(permCalls) + n <= MaxPermCalls

Gate == [calls |-> permCalls, last |-> lastPerm]

\* Whether a requestPermissions invocation of the hook is suspended.
PermActive(hook) == \E call \in BagToSet(permCalls) : call.hook = hook

\* A variant of allGranted that is satisfied by either capability.
AllGrantedEither(finalCameraStatus, finalLocationStatus) ==
    finalCameraStatus = "granted" \/ finalLocationStatus = "granted"

\* const allGranted = finalCameraStatus === GRANTED && finalLocationStatus === GRANTED
AllGranted(finalCameraStatus, finalLocationStatus) ==
    finalCameraStatus = "granted" /\ finalLocationStatus = "granted"

\* if (status !== RESULTS.GRANTED) final = await request(permission)
NeedsRequest(status) == status # "granted"

\* A variant of the effect that runs loadPhotos whenever the flag is set to
\* true, changed or not.
LoadEffectOnEverySet(hook, before, after) == IF hook = "map" /\ after THEN queries + 1 ELSE queries

\* GeoMapView's effect on [permissionsGranted]: when the flag has changed to
\* true, loadPhotos() runs up to its await of CameraRoll.getPhotos.
LoadEffect(hook, before, after) == IF hook = "map" /\ ~before /\ after THEN queries + 1 ELSE queries

\* The end of requestPermissions' try block: setPermissionsGranted(allGranted),
\* the notice when not all are granted, return allGranted.  old is the
\* suspended invocation, call holds its locals as they are now.
PermFinish(old, call, finalCamera, finalLocation) ==
    LET allGranted == AllGranted(finalCamera, finalLocation)
    IN  /\ permissionsGranted' = [permissionsGranted EXCEPT ![call.hook] = allGranted]
        /\ lastPerm' = PermEnded("returned", allGranted, call, finalCamera, finalLocation, ~allGranted)
        /\ permCalls' = Resumed(permCalls, old)
        /\ queries' = LoadEffect(call.hook, permissionsGranted[call.hook], allGranted)

\* catch (error) { console.error(...); return false; }
PermCatch(old) ==
    /\ lastPerm' = PermEnded("caught", FALSE, old, "unset", "unset", FALSE)
    /\ permCalls' = Resumed(permCalls, old)
    /\ UNCHANGED <<permissionsGranted, queries>>

\* await check(cameraPermission) settles; check(locationPermission) is awaited.
PermCheckCameraDone(old) ==
    /\ old.pc = "checkCamera"
    /\ \E outcome \in CheckOutcomes("camera") :
        IF outcome = Thrown
        THEN PermCatch(old)
        ELSE /\ permCalls' = Suspended(Resumed(permCalls, old),
                                       [old EXCEPT !.pc = "checkLocation", !.cameraStatus = outcome])
             /\ UNCHANGED <<permissionsGranted, lastPerm, queries>>
    /\ UNCHANGED <<envVars, cameraVars, mapMounted, photos, selectedPhoto, region, lastLoad>>

\* await check(locationPermission) settles; the first needed request is
\* awaited, or the invocation finishes.
PermCheckLocationDone(old) ==
    /\ old.pc = "checkLocation"
    /\ \E outcome \in CheckOutcomes("location") :
        LET call == [old EXCEPT !.locationStatus = outcome]
        IN  IF outcome = Thrown
            THEN PermCatch(old)
            ELSE IF NeedsRequest(call.cameraStatus)
            THEN /\ permCalls' = Suspended(Resumed(permCalls, old), [call EXCEPT !.pc = "requestCamera"])
                 /\ UNCHANGED <<permissionsGranted, lastPerm, queries>>
            ELSE IF NeedsRequest(call.locationStatus)
            THEN /\ permCalls' = Suspended(Resumed(permCalls, old),
                                           [call EXCEPT !.pc = "requestLocation",
                                                        !.finalCameraStatus = call.cameraStatus])
                 /\ UNCHANGED <<permissionsGranted, lastPerm, queries>>
            ELSE PermFinish(old, call, call.cameraStatus, call.locationStatus)
    /\ UNCHANGED <<envVars, cameraVars, mapMounted, photos, selectedPhoto, region, lastLoad>>

\* await request(cameraPermission) settles; request(locationPermission) is
\* awaited if needed, or the invocation finishes.
PermRequestCameraDone(old) ==
    /\ old.pc = "requestCamera"
    /\ \E outcome \in RequestOutcomes("camera") :
        LET call == [old EXCEPT !.finalCameraStatus = outcome]
        IN  IF outcome = Thrown
            THEN /\ PermCatch(old)
                 /\ UNCHANGED osPerm
            ELSE /\ osPerm' = [osPerm EXCEPT !["camera"] = outcome]
                 /\ IF NeedsRequest(call.locationStatus)
                    THEN /\ permCalls' = Suspended(Resumed(permCalls, old), [call EXCEPT !.pc = "requestLocation"])
                         /\ UNCHANGED <<permissionsGranted, lastPerm, queries>>
                    ELSE PermFinish(old, call, outcome, call.locationStatus)
    /\ UNCHANGED <<platformOS, store, cameraVars, mapMounted, photos, selectedPhoto, region, lastLoad>>

\* await request(locationPermission) settles and the invocation finishes.
PermRequestLocationDone(old) ==
    /\ old.pc = "requestLocation"
    /\ \E outcome \in RequestOutcomes("location") :
        IF outcome = Thrown
        THEN /\ PermCatch(old)
             /\ UNCHANGED osPerm
        ELSE /\ osPerm' = [osPerm EXCEPT !["location"] = outcome]
             /\ PermFinish(old, old, old.finalCameraStatus, outcome)
    /\ UNCHANGED <<platformOS, store, cameraVars, mapMounted, photos, selectedPhoto, region, lastLoad>>

\* A variant in which the hook reports the permission whatever the OS says.
InitialHasPermissionAlways == TRUE

\* useCameraPermission: hasPermission starts as the OS's camera status.
InitialHasPermission == osPerm["camera"] = "granted"

\* GeoCamera mounts.  Its effects run in hook order: usePermissions' mount
\* effect calls requestPermissions(); the [hasPermission, requestPermission]
\* effect calls requestPermission() when the camera permission is missing; the
\* [] effect calls requestPermissions() again.
MountCamera ==
    /\ ~camMounted
    /\ CanRequest(2)
    /\ camMounted' = TRUE
    /\ hasPermission' = InitialHasPermission
    /\ visionPending' = IF InitialHasPermission THEN visionPending ELSE visionPending + 1
    /\ LET gate == Requested(Requested(Gate, "camera"), "camera")
       IN  /\ permCalls' = gate.calls
           /\ lastPerm' = gate.last
    /\ UNCHANGED <<envVars, capturedImage, location, isCapturing, cameraPosition, cameraError,
                   takes, lastTake, presses, nativeCalls, permissionsGranted, mapVars>>

\* useCameraPermission's requestPermission settles: setHasPermission(result).
VisionRequestDone ==
    /\ visionPending > 0
    /\ visionPending' = visionPending - 1
    /\ \E answer \in RequestAnswers("camera") :
        /\ osPerm' = [osPerm EXCEPT !["camera"] = answer]
        /\ hasPermission' = (answer = "granted")
    /\ UNCHANGED <<platformOS, store, camMounted, capturedImage, location, isCapturing,
                   cameraPosition, cameraError, takes, lastTake, presses, nativeCalls,
                   gateVars, mapVars>>

\* The capture screen's Grant Permissions button: onPress={requestPermission}.
PressGrantCamera ==
    /\ PermissionScreen
    /\ visionPending < MaxVision
    /\ visionPending' = visionPending + 1
    /\ UNCHANGED <<envVars, camMounted, hasPermission, capturedImage, location, isCapturing,
                   cameraPosition, cameraError, takes, lastTake, presses, nativeCalls,
                   gateVars, mapVars>>

\* ---------------------------------------------------------------- GeoMapView
\* The region state's initial value, in 1e-4 degrees.
DefaultRegion == [latitude |-> 205937, longitude |-> 789629, latitudeDelta |-> 200000, longitudeDelta |-> 200000]

\* The region loadPhotos sets: deltas of 0.02.
WideRegion(photo) ==
    [latitude |-> photo.location.latitude, longitude |-> photo.location.longitude,
     latitudeDelta |-> 200, longitudeDelta |-> 200]

\* The region a thumbnail press sets: deltas of 0.005.
TightRegion(photo) ==
    [latitude |-> photo.location.latitude, longitude |-> photo.location.longitude,
     latitudeDelta |-> 50, longitudeDelta |-> 50]

\* The regions the user pans the map to (onRegionChangeComplete).
PannedRegions == {[latitude |-> 0, longitude |-> 0, latitudeDelta |-> 10 * n, longitudeDelta |-> 10 * n] : n \in 1..MaxPans}

Min(a, b) == IF a <= b THEN a ELSE b

\* CameraRoll.getPhotos({first: 50, groupName: 'GeoMapCamera', ...}).edges
GetPhotos == SubSeq(store, 1, Min(QueryLimit, Len(store)))

\* value || 0 on an optional number.
OrZero(o) == IF o = Null THEN 0 ELSE IF Val(o) = 0 THEN 0 ELSE Val(o)

\* const location = node.location || {}
NodeLocation(node) ==
    IF node.location = Null THEN [latitude |-> Null, longitude |-> Null] ELSE Val(node.location)

\* The PhotoData built from a raw entry.
ToPhotoData(node) ==
    [id |-> node.uri, uri |-> node.uri,
     location |-> Fix(OrZero(NodeLocation(node).latitude), OrZero(NodeLocation(node).longitude))]

\* A variant of the filter that keeps an entry with either coordinate set.
HasLocationEither(photo) == photo.location.latitude # 0 \/ photo.location.longitude # 0

\* .filter(photo => photo.location.latitude !== 0 && photo.location.longitude !== 0)
HasLocation(photo) == photo.location.latitude # 0 /\ photo.location.longitude # 0

\* A variant that lists the filtered entries in the reverse order.
ProcessedPhotosReversed(edges) ==
    LET kept == SelectSeq([k \in 1..Len(edges) |-> ToPhotoData(edges[k])], HasLocation)
    IN  [j \in 1..Len(kept) |-> kept[Len(kept) + 1 - j]]

\* edges.map(...).filter(...)
ProcessedPhotos(edges) == SelectSeq([k \in 1..Len(edges) |-> ToPhotoData(edges[k])], HasLocation)

\* A variant that centers on the last entry.
CenterPhotoLast(processedPhotos) == processedPhotos[Len(processedPhotos)]

\* const lastPhoto = processedPhotos[0]
CenterPhoto(processedPhotos) == processedPhotos[1]

NoLoad == [outcome |-> "none", edges |-> <<>>]

\* GeoMapView mounts: usePermissions' mount effect calls requestPermissions();
\* the load effect finds permissionsGranted false and does nothing.
MountMap ==
    /\ ~mapMounted
    /\ CanRequest(1)
    /\ mapMounted' = TRUE
    /\ LET gate == Requested(Gate, "map")
       IN  /\ permCalls' = gate.calls
           /\ lastPerm' = gate.last
    /\ UNCHANGED <<envVars, cameraVars, permissionsGranted, photos, selectedPhoto, region,
                   queries, lastLoad>>

\* The map screen's Grant Permissions button: onPress={requestPermissions}.
PressGrantMap ==
    /\ mapMounted
    /\ ~permissionsGranted["map"]
    /\ CanRequest(1)
    /\ LET gate == Requested(Gate, "map")
       IN  /\ permCalls' = gate.calls
           /\ lastPerm' = gate.last
    /\ UNCHANGED <<envVars, cameraVars, permissionsGranted, mapVars>>

\* A variant of loadPhotos whose catch block resets the list and the region.
LoadDoneResettingOnFailure ==
    /\ queries > 0
    /\ queries' = queries - 1
    /\ \E ok \in BOOLEAN :
        IF ok
        THEN LET processedPhotos == ProcessedPhotos(GetPhotos)
             IN  /\ photos' = processedPhotos
                 /\ region' = IF Len(processedPhotos) > 0
                              THEN WideRegion(CenterPhoto(processedPhotos))
                              ELSE region
                 /\ lastLoad' = [outcome |-> "loaded", edges |-> GetPhotos]
        ELSE /\ lastLoad' = [outcome |-> "failed", edges |-> <<>>]
             /\ photos' = <<>>
             /\ region' = DefaultRegion
    /\ UNCHANGED <<envVars, cameraVars, gateVars, mapMounted, selectedPhoto>>

\* loadPhotos after its await: the query returned edges or threw.
LoadDone ==
    /\ queries > 0
    /\ queries' = queries - 1
    /\ \E ok \in BOOLEAN :
        IF ok
        THEN LET processedPhotos == ProcessedPhotos(GetPhotos)
             IN  /\ photos' = processedPhotos
                 /\ region' = IF Len(processedPhotos) > 0
                              THEN WideRegion(CenterPhoto(processedPhotos))
                              ELSE region
                 /\ lastLoad' = [outcome |-> "loaded", edges |-> GetPhotos]
        ELSE /\ lastLoad' = [outcome |-> "failed", edges |-> <<>>]
             /\ UNCHANGED <<photos, region>>
    /\ UNCHANGED <<envVars, cameraVars, gateVars, mapMounted, selectedPhoto>>

\* The map is shown once permissionsGranted is true.
MapScreen == mapMounted /\ permissionsGranted["map"]

\* A thumbnail's onPress: setSelectedPhoto(item); setRegion(tight on item).
SelectThumbnail(k) ==
    /\ MapScreen
    /\ k \in 1..Len(photos)
    /\ selectedPhoto' = Some(photos[k])
    /\ region' = TightRegion(photos[k])
    /\ UNCHANGED <<envVars, cameraVars, gateVars, mapMounted, photos, queries, lastLoad>>

\* A marker's onPress: setSelectedPhoto(photo).
MarkerPress(k) ==
    /\ MapScreen
    /\ k \in 1..Len(photos)
    /\ selectedPhoto' = Some(photos[k])
    /\ UNCHANGED <<envVars, cameraVars, gateVars, mapMounted, photos, region, queries, lastLoad>>

\* The full photo view's close button: setSelectedPhoto(null).
CloseSelected ==
    /\ MapScreen
    /\ selectedPhoto # Null
    /\ selectedPhoto' = Null
    /\ UNCHANGED <<envVars, cameraVars, gateVars, mapMounted, photos, region, queries, lastLoad>>

\* onRegionChangeComplete={setRegion}
RegionChange ==
    /\ MapScreen
    /\ \E r \in PannedRegions : region' = r
    /\ UNCHANGED <<envVars, cameraVars, gateVars, mapMounted, photos, selectedPhoto, queries, lastLoad>>

\* ---------------------------------------------------------- specifications
\* The component state of screens that have not run anything yet.
FreshCamera ==
    /\ capturedImage = Null
    /\ location = Null
    /\ isCapturing = FALSE
    /\ cameraPosition = "back"
    /\ cameraError = Null
    /\ takes = [i \in 1..MaxTakes |-> FreeTake]
    /\ lastTake = NoTake
    /\ presses = 0
    /\ nativeCalls = [location |-> 0, shutter |-> 0, save |-> 0]

FreshMap ==
    /\ mapMounted = FALSE
    /\ photos = <<>>
    /\ selectedPhoto = Null
    /\ region = DefaultRegion
    /\ queries = 0
    /\ lastLoad = NoLoad

\* The stores of at most MaxStore entries, each with any location metadata.
InitialStores ==
    UNION {{[k \in 1..n |-> Asset(n + 1 - k, <<>>, locs[k])] : locs \in [1..n -> StoreLocations]} : n \in 0..MaxStore}

\* The app before any screen is mounted, on any platform, with any permission
\* statuses and an empty album.
InitGate ==
    /\ platformOS \in {"android", "web"}
    /\ osPerm \in [Capabilities -> Statuses]
    /\ store = <<>>
    /\ camMounted = FALSE
    /\ hasPermission = FALSE
    /\ visionPending = 0
    /\ FreshCamera
    /\ permissionsGranted = [h \in Screens |-> FALSE]
    /\ permCalls = EmptyBag
    /\ lastPerm = NoPerm
    /\ FreshMap

\* The capture screen once the gate has granted both capabilities, the map
\* screen not visited yet, the album empty.
Granted == PermEnded("returned", TRUE, [NewPerm("camera") EXCEPT !.cameraStatus = "granted", !.locationStatus = "granted"],
                     "granted", "granted", FALSE)

Init ==
    /\ platformOS \in {"android", "ios"}
    /\ osPerm = [c \in Capabilities |-> "granted"]
    /\ store = <<>>
    /\ camMounted = TRUE
    /\ hasPermission = TRUE
    /\ visionPending = 0
    /\ FreshCamera
    /\ permissionsGranted = [h \in Screens |-> h = "camera"]
    /\ permCalls = EmptyBag
    /\ lastPerm = Granted
    /\ FreshMap

\* The map screen before it is mounted, both capabilities granted, over any
\* album of earlier sessions.
InitGallery ==
    /\ platformOS = "android"
    /\ osPerm = [c \in Capabilities |-> "granted"]
    /\ store \in InitialStores
    /\ camMounted = FALSE
    /\ hasPermission = FALSE
    /\ visionPending = 0
    /\ FreshCamera
    /\ permissionsGranted = [h \in Screens |-> FALSE]
    /\ permCalls = EmptyBag
    /\ lastPerm = NoPerm
    /\ FreshMap

\* Capture and retrieval with the permissions granted.
Next ==
    \/ TakePhoto
    \/ \E i \in 1..MaxTakes : LocationDone(i)
    \/ \E i \in 1..MaxTakes : ShutterDone(i)
    \/ \E i \in 1..MaxTakes : SaveDone(i)
    \/ ToggleCameraType
    \/ RetakePhoto
    \/ CameraOnError
    \/ MountMap
    \/ \E call \in BagToSet(permCalls) : PermCheckCameraDone(call)
    \/ \E call \in BagToSet(permCalls) : PermCheckLocationDone(call)
    \/ LoadDone

Spec == Init /\ [][Next]_vars

\* The Permission Gate on both screens.
NextGate ==
    \/ MountCamera
    \/ MountMap
    \/ PressGrantCamera
    \/ PressGrantMap
    \/ VisionRequestDone
    \/ \E call \in BagToSet(permCalls) : PermCheckCameraDone(call)
    \/ \E call \in BagToSet(permCalls) : PermCheckLocationDone(call)
    \/ \E call \in BagToSet(permCalls) : PermRequestCameraDone(call)
    \/ \E call \in BagToSet(permCalls) : PermRequestLocationDone(call)
    \/ LoadDone

SpecGate == InitGate /\ [][NextGate]_vars

\* Gallery Reconstruction over any album.
NextGallery ==
    \/ MountMap
    \/ \E call \in BagToSet(permCalls) : PermCheckCameraDone(call)
    \/ \E call \in BagToSet(permCalls) : PermCheckLocationDone(call)
    \/ LoadDone
    \/ \E k \in 1..MaxStore : SelectThumbnail(k)
    \/ \E k \in 1..MaxStore : MarkerPress(k)
    \/ CloseSelected
    \/ RegionChange

SpecGallery == InitGallery /\ [][NextGallery]_vars

\* The uris the store gives its assets.  Nothing in getPhotos' contract keeps
\* two returned edges from carrying the same image uri (the same file indexed
\* twice by the media store), and loadPhotos takes them as they come.
Uris == {<<"ph://", n>> : n \in 1..MaxUris}

\* The albums whose entries carry any uri and any location metadata.
ReturnedStores ==
    UNION {[1..n -> [uri : Uris, source : {<<>>}, location : StoreLocations]] : n \in 0..MaxReturned}

\* The map screen before it is mounted, over any list the store can return.
InitReturned ==
    /\ platformOS = "android"
    /\ osPerm = [c \in Capabilities |-> "granted"]
    /\ store \in ReturnedStores
    /\ camMounted = FALSE
    /\ hasPermission = FALSE
    /\ visionPending = 0
    /\ FreshCamera
    /\ permissionsGranted = [h \in Screens |-> FALSE]
    /\ permCalls = EmptyBag
    /\ lastPerm = NoPerm
    /\ FreshMap

\* Gallery Reconstruction over any returned list.
NextReturned ==
    \/ MountMap
    \/ \E call \in BagToSet(permCalls) : PermCheckCameraDone(call)
    \/ \E call \in BagToSet(permCalls) : PermCheckLocationDone(call)
    \/ LoadDone
    \/ \E k \in 1..MaxReturned : SelectThumbnail(k)
    \/ CloseSelected

SpecReturned == InitReturned /\ [][NextReturned]_vars


\* The app before the capture screen is mounted, with any permission statuses
\* and an empty album.
InitApp ==
    /\ platformOS = "android"
    /\ osPerm \in [Capabilities -> Statuses]
    /\ store = <<>>
    /\ camMounted = FALSE
    /\ hasPermission = FALSE
    /\ visionPending = 0
    /\ FreshCamera
    /\ permissionsGranted = [h \in Screens |-> FALSE]
    /\ permCalls = EmptyBag
    /\ lastPerm = NoPerm
    /\ FreshMap

\* The capture screen from its mount on: the permission prompts and captures.
NextApp ==
    \/ MountCamera
    \/ PressGrantCamera
    \/ VisionRequestDone
    \/ \E call \in BagToSet(permCalls) : PermCheckCameraDone(call)
    \/ \E call \in BagToSet(permCalls) : PermCheckLocationDone(call)
    \/ \E call \in BagToSet(permCalls) : PermRequestCameraDone(call)
    \/ \E call \in BagToSet(permCalls) : PermRequestLocationDone(call)
    \/ TakePhoto
    \/ \E i \in 1..MaxTakes : LocationDone(i)
    \/ \E i \in 1..MaxTakes : ShutterDone(i)
    \/ \E i \in 1..MaxTakes : SaveDone(i)
    \/ RetakePhoto

SpecApp == InitApp /\ [][NextApp]_vars


\* Capture in which every native call that was issued settles: the location
\* request calls one of its callbacks (it has a timeout), the shutter call and
\* the save call return or throw.
SpecSettling ==
    /\ Spec
    /\ \A i \in 1..MaxTakes :
        /\ WF_vars(LocationDone(i))
        /\ WF_vars(ShutterDone(i))
        /\ WF_vars(SaveDone(i))


\* Albums of at most one entry, unlocated or located.
MapStores ==
    {st \in InitialStores : Len(st) <= 1 /\ \A k \in 1..Len(st) : st[k].location \in {NoLocation, Located(1, 1)}}

\* The app before any screen is mounted, with any permission statuses, over
\* a small album.
InitMap ==
    /\ platformOS = "android"
    /\ osPerm \in [Capabilities -> Statuses]
    /\ store \in MapStores
    /\ camMounted = FALSE
    /\ hasPermission = FALSE
    /\ visionPending = 0
    /\ FreshCamera
    /\ permissionsGranted = [h \in Screens |-> FALSE]
    /\ permCalls = EmptyBag
    /\ lastPerm = NoPerm
    /\ FreshMap

\* The Permission Gate on both screens together with the map's controls.
NextMap ==
    \/ NextGate
    \/ \E k \in 1..MaxStore : SelectThumbnail(k)
    \/ \E k \in 1..MaxStore : MarkerPress(k)
    \/ CloseSelected
    \/ RegionChange

SpecMap == InitMap /\ [][NextMap]_vars


\* ------------------------------------------------------------------ claims
\* A step in which takePhoto is invoked.
Pressed == presses' = presses + 1

\* C1: a takePhoto invocation made while a capture is in flight is a no-op: it
\* issues no location request, no shutter call and no save and leaves the
\* in-flight capture and the store alone; at most one capture is ever in
\* flight, each started capture issues at most one call of each kind, and the
\* store holds at most one record per save call.
C1_OneCaptureInFlight ==
    /\ Cardinality(ActiveTakes) <= 1
    /\ isCapturing <=> ActiveTakes # {}
    /\ Len(store) <= nativeCalls.save
    /\ nativeCalls.save <= nativeCalls.shutter
    /\ nativeCalls.shutter <= nativeCalls.location
C1_SecondCaptureIsNoop ==
    /\ []C1_OneCaptureInFlight
    /\ [][(Pressed /\ ActiveTakes # {}) =>
            /\ nativeCalls' = nativeCalls
            /\ store' = store
            /\ takes' = takes
            /\ lastTake'.outcome = "noop"]_vars

\* Two presses, the second coalesced, and exactly one persisted record.
C1_Witness ==
    /\ presses = 2
    /\ nativeCalls = [location |-> 1, shutter |-> 1, save |-> 1]
    /\ Len(store) = 1
    /\ capturedImage # Null

\* C2: a capture whose location fix failed is not aborted: it carries the
\* (0,0) fix on to the shutter call, the shutter is invoked before it ends,
\* and when the shutter returned a non-empty image it ends in Preview with a
\* record whose latitude and longitude are both 0.
C2_LocationFailureProceeds ==
    /\ \A i \in ActiveTakes :
        takes[i].locFailed =>
            /\ takes[i].pc \in {"shutter", "save"}
            /\ takes[i].locationData.latitude = 0
            /\ takes[i].locationData.longitude = 0
    /\ lastTake.locFailed => lastTake.shot
    /\ (lastTake.locFailed /\ lastTake.photoOk) => lastTake.outcome = "preview"
    /\ (lastTake.locFailed /\ lastTake.outcome = "preview" /\ capturedImage # Null) =>
            /\ Val(capturedImage).location.latitude = 0
            /\ Val(capturedImage).location.longitude = 0

\* Preview reached by a capture whose fix failed.
C2_Witness ==
    /\ lastTake.locFailed
    /\ lastTake.outcome = "preview"
    /\ capturedImage # Null

\* A step in which invocation i's save call settles with an error (a save that
\* succeeds adds an asset).
SaveFailedStep(i) == takes[i].pc = "save" /\ takes'[i].pc = "free" /\ store' = store

\* C3: when the save call errors, the invocation still ends in Preview with the
\* captured file's uri and the acquired location (the one on display), the
\* error message is left as it was, and no alert is raised: the promise
\* resolves.
C3_SaveFailureStillPreviews ==
    [][\A i \in 1..MaxTakes :
        SaveFailedStep(i) =>
            /\ capturedImage' = Some([uri |-> takes[i].filePath, location |-> takes[i].locationData])
            /\ takes[i].filePath \in {FilePath(p) : p \in Paths}
            /\ location' = Some(takes[i].locationData)
            /\ cameraError' = cameraError
            /\ cameraError' # Some(FailedMessage)
            /\ lastTake'.outcome = "preview"
            /\ isCapturing' = FALSE]_vars

\* Preview after a failed save, with no error message.
C3_Witness ==
    /\ lastTake.saveFailed
    /\ lastTake.outcome = "preview"
    /\ capturedImage # Null
    /\ cameraError = Null
    /\ store = <<>>

\* C4 (as claimed): after retake the camera screen's preview record, displayed
\* location, error message and in-flight flag are those of a fresh screen.
C4_RetakeLeavesNoResidue ==
    [][(capturedImage # Null /\ capturedImage' = Null) =>
            /\ location' = Null
            /\ cameraError' = Null
            /\ isCapturing' = FALSE
            /\ takes' = [i \in 1..MaxTakes |-> FreeTake]]_vars

\* The gate of a screen has run: an invocation of its hook has reached the end
\* of its try block and none is suspended.
GateHasRun(hook) == lastPerm.how = "returned" /\ lastPerm.hook = hook /\ ~PermActive(hook)

\* C5 (as claimed): when the gate has run and found the camera granted and the
\* location denied, the readiness flag is false and the capture screen shows
\* the permission message instead of the camera and its shutter.
C5_LocationDeniedBlocksCapture ==
    (/\ camMounted
     /\ GateHasRun("camera")
     /\ lastPerm.cameraStatus = "granted"
     /\ lastPerm.finalLocationStatus = "denied"
     /\ osPerm["camera"] = "granted"
     /\ osPerm["location"] = "denied") =>
        /\ ~permissionsGranted["camera"]
        /\ PermissionScreen
        /\ ~CameraScreen

\* A raw entry carries both coordinates and neither is zero.
BothPresentNonZero(node) ==
    /\ node.location # Null
    /\ Val(node.location).latitude # Null
    /\ Val(node.location).longitude # Null
    /\ Val(Val(node.location).latitude) # 0
    /\ Val(Val(node.location).longitude) # 0

\* C6: after a load, an entry the store returned is in the photo list iff both
\* its coordinates are present and non-zero, and no listed photo sits at (0,0).
C6_ListedIffLocated ==
    lastLoad.outcome = "loaded" =>
        /\ \A k \in 1..Len(lastLoad.edges) :
            (\E j \in 1..Len(photos) : photos[j].id = lastLoad.edges[k].uri) <=> BothPresentNonZero(lastLoad.edges[k])
        /\ \A j \in 1..Len(photos) :
            /\ \E k \in 1..Len(lastLoad.edges) : photos[j].id = lastLoad.edges[k].uri
            /\ ~(photos[j].location.latitude = 0 /\ photos[j].location.longitude = 0)

\* Three entries returned, one of them dropped, one of them at (0,0).
C6_Witness ==
    /\ lastLoad.outcome = "loaded"
    /\ Len(lastLoad.edges) = 3
    /\ Len(photos) = 2
    /\ \E k \in 1..3 : lastLoad.edges[k].location = Located(0, 0)

\* The entries of a list of raw entries that carry a location, in order.
LocatedIndices(edges) == {k \in 1..Len(edges) : BothPresentNonZero(edges[k])}
FirstLocated(edges) == CHOOSE k \in LocatedIndices(edges) : \A m \in LocatedIndices(edges) : k <= m

\* A step in which a query returns its entries.
LoadedStep == queries' = queries - 1 /\ lastLoad'.outcome = "loaded"

\* C7: a load whose filtered result is non-empty centers the region on the
\* first location-bearing entry in the store's order, with deltas of 0.02; a
\* load whose filtered result is empty leaves the region as it was.
C7_RegionCentersOnFirst ==
    [][LoadedStep =>
        IF LocatedIndices(lastLoad'.edges) # {}
        THEN LET first == lastLoad'.edges[FirstLocated(lastLoad'.edges)]
             IN  /\ Len(photos') = Cardinality(LocatedIndices(lastLoad'.edges))
                 /\ region'.latitude = Val(Val(first.location).latitude)
                 /\ region'.longitude = Val(Val(first.location).longitude)
                 /\ region'.latitudeDelta = 200
                 /\ region'.longitudeDelta = 200
        ELSE /\ photos' = <<>>
             /\ region' = region]_vars

\* Three entries, the first without a location, the other two at different
\* places: the list has two photos and the region is on the first of them.
C7_Witness ==
    /\ lastLoad.outcome = "loaded"
    /\ Len(lastLoad.edges) = 3
    /\ lastLoad.edges[1].location = NoLocation
    /\ Len(photos) = 2
    /\ photos[1].location # photos[2].location
    /\ region = WideRegion(photos[1])

\* C8 (as claimed): every takePhoto invocation completes normally, its
\* failures turned into state; none ends with a rejected promise.
C8_NoUnhandledFault == lastTake.outcome # "rejected"

\* C9 (as claimed): when the last capture reached Preview with a fix L whose
\* coordinates are non-zero and its save succeeded, a load that ran after the
\* save lists the saved asset with the coordinates of L.
C9_FixIsPersisted ==
    (/\ capturedImage # Null
     /\ lastTake.outcome = "preview"
     /\ ~lastTake.saveFailed
     /\ Val(capturedImage).location.latitude # 0
     /\ Val(capturedImage).location.longitude # 0
     /\ lastLoad.outcome = "loaded"
     /\ lastLoad.edges = store) =>
        \E j \in 1..Len(photos) :
            /\ photos[j].id = store[1].uri
            /\ store[1].source = Val(capturedImage).uri
            /\ photos[j].location = Val(capturedImage).location

\* An invocation's result agrees with the final statuses it collected.
ReturnsAllGranted ==
    lastPerm.how # "none" =>
        (lastPerm.returned <=>
            (lastPerm.finalCameraStatus = "granted" /\ lastPerm.finalLocationStatus = "granted"))

\* A capability is prompted for only if its queried status is not granted, and
\* one that was granted when queried keeps that status as its final one.
PromptsOnlyIfNotGranted ==
    /\ \A call \in BagToSet(permCalls) :
        /\ call.pc = "requestCamera" => call.cameraStatus = "denied"
        /\ call.pc = "requestLocation" => call.locationStatus = "denied"
    /\ lastPerm.how = "returned" =>
        /\ lastPerm.cameraStatus = "granted" => lastPerm.finalCameraStatus = "granted"
        /\ lastPerm.locationStatus = "granted" => lastPerm.finalLocationStatus = "granted"

\* C10 (as claimed): requestPermissions returns true iff both final statuses
\* are granted, every invocation queries the status of both capabilities, and
\* a capability is prompted for only if its queried status is not granted.
C10_EveryInvocationQueriesBoth ==
    /\ ReturnsAllGranted
    /\ PromptsOnlyIfNotGranted
    /\ lastPerm.how # "none" =>
        /\ lastPerm.cameraStatus # "unset"
        /\ lastPerm.locationStatus # "unset"

\* C10 (amended): requestPermissions returns true iff it collected granted as
\* the final status of both capabilities; an invocation that reaches the end
\* of its try block has queried the status of both capabilities, whatever the
\* cached flag; one that ends early (no permission definitions for the
\* platform, or a check or request that throws) returns false and has not
\* queried both (or has not collected both final statuses); a capability is
\* prompted for only if its queried status is not granted.
C10_QueriesBothUnlessFaulted ==
    /\ ReturnsAllGranted
    /\ PromptsOnlyIfNotGranted
    /\ lastPerm.how = "returned" =>
        /\ lastPerm.cameraStatus # "unset"
        /\ lastPerm.locationStatus # "unset"
    /\ lastPerm.how \in {"undefined", "caught"} =>
        /\ ~lastPerm.returned
        /\ lastPerm.finalLocationStatus = "unset"
    /\ lastPerm.how = "undefined" =>
        /\ lastPerm.cameraStatus = "unset"
        /\ lastPerm.locationStatus = "unset"

\* An invocation found the camera denied, prompted and returned true, and
\* another invocation of the same hook is still querying although the hook's
\* flag is true already.
C10_Witness ==
    /\ lastPerm.how = "returned"
    /\ lastPerm.returned
    /\ lastPerm.cameraStatus = "denied"
    /\ lastPerm.finalCameraStatus = "granted"
    /\ permissionsGranted[lastPerm.hook]
    /\ \E call \in BagToSet(permCalls) : call.hook = lastPerm.hook /\ call.pc = "checkLocation"

\* C11 (as claimed): no two entries of the displayed photo list have the same
\* id, whatever list the store returned.
C11_NoDuplicateIds ==
    \A j \in 1..Len(photos) : \A k \in 1..Len(photos) :
        j # k => photos[j].id # photos[k].id

\* Nothing of a capture has happened: no location, shutter or save call, an
\* empty album, no preview record and no invocation in flight.
NoCaptureYet ==
    /\ nativeCalls = [location |-> 0, shutter |-> 0, save |-> 0]
    /\ store = <<>>
    /\ capturedImage = Null
    /\ ActiveTakes = {}
    /\ ~isCapturing

\* C12: while the camera permission is not granted (by the OS, or as the
\* capture screen sees it) the shutter is never invoked, nothing is saved and
\* Preview is never entered: the screen shows the permission message, not the
\* camera and its capture button.
C12_RefusedCameraBlocksCapture ==
    /\ hasPermission => osPerm["camera"] = "granted"
    /\ (camMounted /\ (osPerm["camera"] # "granted" \/ ~hasPermission)) =>
        /\ PermissionScreen
        /\ ~CameraScreen
        /\ ~PreviewScreen
        /\ NoCaptureYet

\* The camera prompt was answered with a refusal, the gate has run and the
\* permission screen is up with nothing captured.
C12_Witness ==
    /\ camMounted
    /\ osPerm["camera"] = "denied"
    /\ visionPending = 0
    /\ permCalls = EmptyBag
    /\ lastPerm.how = "returned"
    /\ lastPerm.finalCameraStatus = "denied"
    /\ PermissionScreen
    /\ NoCaptureYet

\* A step in which invocation i's shutter call settles without a usable image
\* (a usable one moves the invocation on to its save call).
ShutterFailedStep(i) == takes[i].pc = "shutter" /\ takes'[i].pc = "free"

\* The file paths takePhoto builds from a non-empty photo path.
UsableFilePaths == {FilePath(p) : p \in Paths}

\* C13: when the camera returns no image or an image with an empty path, no
\* save is attempted, the preview record stays empty, the retry message is
\* set and the in-flight flag is cleared; a save is only ever attempted, and a
\* preview only ever shown, for a non-empty image path.
C13_SavesOnlyUsableImages ==
    /\ \A i \in ActiveTakes : takes[i].pc = "save" => takes[i].filePath \in UsableFilePaths
    /\ capturedImage # Null => Val(capturedImage).uri \in UsableFilePaths
    /\ \A k \in 1..Len(store) : store[k].source \in UsableFilePaths
C13_EmptyImageFailsCapture ==
    /\ []C13_SavesOnlyUsableImages
    /\ [][\A i \in 1..MaxTakes :
            ShutterFailedStep(i) =>
                /\ nativeCalls' = nativeCalls
                /\ store' = store
                /\ capturedImage' = Null
                /\ cameraError' = Some(FailedMessage)
                /\ isCapturing' = FALSE
                /\ lastTake'.shot /\ ~lastTake'.photoOk]_vars

\* The shutter was invoked once and gave no usable image: the message is up,
\* nothing was saved and the camera screen is ready again.
C13_Witness ==
    /\ lastTake.shot
    /\ ~lastTake.photoOk
    /\ nativeCalls = [location |-> 1, shutter |-> 1, save |-> 0]
    /\ cameraError = Some(FailedMessage)
    /\ capturedImage = Null
    /\ ~isCapturing
    /\ CameraScreen

\* The request prompts outstanding for a capability: the request(permission)
\* calls of suspended requestPermissions invocations and, for the camera,
\* useCameraPermission's requestPermission calls.
GatePrompts(capability) ==
    LET at == IF capability = "camera" THEN "requestCamera" ELSE "requestLocation"
        asking == {call \in BagToSet(permCalls) : call.pc = at}
        RECURSIVE Sum(_)
        Sum(calls) ==
            IF calls = {} THEN 0
            ELSE LET call == CHOOSE c \in calls : TRUE
                 IN  CopiesIn(call, permCalls) + Sum(calls \ {call})
    IN  Sum(asking)
Prompts(capability) ==
    GatePrompts(capability) + (IF capability = "camera" THEN visionPending ELSE 0)

\* A prompt for the capability has been answered with a refusal.
AnsweredDenied(capability) ==
    /\ lastPerm.how = "returned"
    /\ IF capability = "camera"
       THEN lastPerm.cameraStatus = "denied" /\ lastPerm.finalCameraStatus = "denied"
       ELSE lastPerm.locationStatus = "denied" /\ lastPerm.finalLocationStatus = "denied"

\* A step in which the user presses the capture screen's Grant Permissions
\* button, the only control of that screen that asks for a permission.
RetryPressedCamera == PermissionScreen /\ camMounted' /\ visionPending' = visionPending + 1

\* C14 (as claimed), on the capture screen: its gate never has two prompts out
\* for the same capability (the prompts of useCameraPermission, which the
\* retry button also issues, are left aside), and once a prompt for a
\* capability has been answered with a refusal a further prompt for it is
\* issued only by a press of the retry button.
C14_NoAutomaticReprompt ==
    /\ [](\A capability \in Capabilities : visionPending = 0 => Prompts(capability) <= 1)
    /\ [][\A capability \in Capabilities :
            (Prompts(capability)' > Prompts(capability) /\ AnsweredDenied(capability))
                => RetryPressedCamera]_vars

\* A step in which invocation i moves from one await to the next, or ends.
TakeMoves(i, from, to) == takes[i].pc = from /\ takes'[i].pc = to

\* C15: the shutter is invoked only when the location request has resolved
\* (its fix is the one on display), the save only when the shutter has
\* returned a non-empty image, Preview is entered only when the save call has
\* settled, and Preview is left only by retake, which starts nothing.
C15_StepsInOrder ==
    [][/\ nativeCalls'.shutter # nativeCalls.shutter =>
            \E i \in 1..MaxTakes :
                /\ TakeMoves(i, "location", "shutter")
                /\ nativeCalls'.shutter = nativeCalls.shutter + 1
                /\ location' = Some(takes'[i].locationData)
       /\ nativeCalls'.save # nativeCalls.save =>
            \E i \in 1..MaxTakes :
                /\ TakeMoves(i, "shutter", "save")
                /\ nativeCalls'.save = nativeCalls.save + 1
                /\ takes'[i].filePath \in UsableFilePaths
       /\ (capturedImage = Null /\ capturedImage' # Null) =>
            \E i \in 1..MaxTakes :
                /\ TakeMoves(i, "save", "free")
                /\ lastTake'.outcome = "preview"
       /\ (capturedImage # Null /\ capturedImage' # capturedImage) =>
            /\ capturedImage' = Null
            /\ PreviewScreen
            /\ takes' = takes
            /\ nativeCalls' = nativeCalls
            /\ store' = store]_vars

\* A whole cycle: one capture through its three calls to Preview, then retake
\* back to the camera screen.
C15_Witness ==
    /\ lastTake.outcome = "preview"
    /\ nativeCalls = [location |-> 1, shutter |-> 1, save |-> 1]
    /\ capturedImage = Null
    /\ CameraScreen
    /\ ActiveTakes = {}

\* A step in which invocation i ends.
TakeEnds(i) == takes[i].pc # "free" /\ takes'[i].pc = "free"

\* C16: a capture that passed the guard and whose native calls all settle
\* eventually ends with the in-flight flag false, on the success path and on
\* every failure path; when it ends in failure the camera screen is up and a
\* new capture passes the guard.
C16_CaptureEndsReady ==
    /\ \A i \in 1..MaxTakes : (takes[i].pc # "free") ~> (takes[i].pc = "free" /\ ~isCapturing)
    /\ isCapturing ~> ~isCapturing
    /\ [][\A i \in 1..MaxTakes :
            TakeEnds(i) =>
                /\ isCapturing' = FALSE
                /\ lastTake'.outcome # "preview" => (CameraScreen' /\ ~TakePhotoGuard')]_vars

\* A capture failed at the shutter and a second capture has passed the guard.
C16_Witness ==
    /\ lastTake.outcome = "rejected"
    /\ lastTake.shot
    /\ nativeCalls = [location |-> 2, shutter |-> 1, save |-> 0]
    /\ isCapturing
    /\ cameraError = Null

\* The suspended requestPermissions invocations of a screen's hook.
HookCalls(hook) ==
    LET mine == {call \in BagToSet(permCalls) : call.hook = hook}
        RECURSIVE Sum(_)
        Sum(calls) ==
            IF calls = {} THEN 0
            ELSE LET call == CHOOSE c \in calls : TRUE
                 IN  CopiesIn(call, permCalls) + Sum(calls \ {call})
    IN  Sum(mine)

\* A step in which the screen mounts, and one in which the user presses the
\* Grant Permissions button of the screen's permission message.
MountStep(hook) ==
    IF hook = "camera" THEN ~camMounted /\ camMounted' ELSE ~mapMounted /\ mapMounted'
RetryStep(hook) ==
    IF hook = "camera"
    THEN RetryPressedCamera
    ELSE mapMounted /\ mapMounted' /\ ~permissionsGranted["map"]

\* C17 (as claimed): requestPermissions invocations of a screen are started
\* one at a time, either by the screen's mount (exactly one) or by a press of
\* the screen's retry button.
C17_OneInvocationPerMount ==
    [][\A hook \in Screens :
        HookCalls(hook)' > HookCalls(hook) =>
            /\ HookCalls(hook)' = HookCalls(hook) + 1
            /\ MountStep(hook) \/ RetryStep(hook)]_vars

\* A step in which the map screen's readiness flag changes to granted.
BecomesGranted == mapMounted /\ ~permissionsGranted["map"] /\ permissionsGranted'["map"]

\* C18: the gallery issues one query in each step in which its readiness flag
\* changes to granted and in no other step (no selection, region change or
\* prompt issues one, and none is issued while the flag stays false), and a
\* query that returns replaces the photo list with the located entries of the
\* whole album as it is then.
C18_QueryOnlyOnGrant ==
    [][/\ queries' > queries => (queries' = queries + 1 /\ BecomesGranted)
       /\ BecomesGranted => queries' = queries + 1
       /\ LoadedStep =>
            /\ lastLoad'.edges = store
            /\ Len(photos') = Cardinality(LocatedIndices(store))
            /\ \A j \in 1..Len(photos') : \E k \in LocatedIndices(store) : photos'[j].id = store[k].uri]_vars

\* The flag became granted after a prompt, the one query has returned, a
\* second invocation started by the retry button has returned as well, and a
\* thumbnail has been selected: no query is pending.
C18_Witness ==
    /\ permissionsGranted["map"]
    /\ lastPerm.hook = "map"
    /\ lastPerm.returned
    /\ lastPerm.locationStatus = "denied"
    /\ HookCalls("map") = 0
    /\ lastLoad.outcome = "loaded"
    /\ Len(photos) = 1
    /\ selectedPhoto # Null
    /\ region = TightRegion(photos[1])
    /\ queries = 0

\* C19: a change of the selected camera is a flip between back and front that
\* leaves the preview record, the displayed location, the in-flight flag, the
\* error message, the captures in flight and the album as they are, and a
\* second flip gives the first position back.
C19_ToggleIsPureFlip ==
    /\ [](\A p \in Positions : Flipped(p) \in Positions \ {p} /\ Flipped(Flipped(p)) = p)
    /\ [][cameraPosition' # cameraPosition =>
            /\ cameraPosition' = Flipped(cameraPosition)
            /\ Flipped(cameraPosition') = cameraPosition
            /\ UNCHANGED <<capturedImage, location, isCapturing, cameraError, takes,
                           lastTake, nativeCalls, store, hasPermission>>]_vars

\* The front camera is selected while a capture that has its fix is waiting
\* for the shutter.
C19_Witness ==
    /\ cameraPosition = "front"
    /\ isCapturing
    /\ location # Null
    /\ \E i \in ActiveTakes : takes[i].pc = "shutter"

\* The index of the j-th located entry of a list of raw entries.
NthLocated(edges, j) ==
    CHOOSE k \in LocatedIndices(edges) : Cardinality({m \in LocatedIndices(edges) : m < k}) = j - 1

\* C20: after a load the photo list is the subsequence of the returned entries
\* that carry a location, in the order the store returned them: its j-th
\* photo is the j-th located entry, with that entry's coordinates.
C20_StoreOrderPreserved ==
    lastLoad.outcome = "loaded" =>
        /\ Len(photos) = Cardinality(LocatedIndices(lastLoad.edges))
        /\ \A j \in 1..Len(photos) :
            LET node == lastLoad.edges[NthLocated(lastLoad.edges, j)]
            IN  /\ photos[j].id = node.uri
                /\ photos[j].uri = node.uri
                /\ photos[j].location.latitude = Val(Val(node.location).latitude)
                /\ photos[j].location.longitude = Val(Val(node.location).longitude)

\* Three entries returned, the middle one without a location: the list is the
\* first and the third, in that order.
C20_Witness ==
    /\ lastLoad.outcome = "loaded"
    /\ Len(lastLoad.edges) = 3
    /\ ~BothPresentNonZero(lastLoad.edges[2])
    /\ Len(photos) = 2
    /\ photos[1].id = lastLoad.edges[1].uri
    /\ photos[2].id = lastLoad.edges[3].uri
    /\ photos[1].id # photos[2].id

\* C21: whenever a preview record is set, the location state the overlay
\* displays is the location stored in that record.
C21_OverlayMatchesPreview ==
    capturedImage # Null => location = Some(Val(capturedImage).location)

\* The preview of a second successful capture, taken with the front camera
\* after a retake and a capture that failed at the shutter, at a fix of its own.
C21_Witness ==
    /\ PreviewScreen
    /\ nativeCalls = [location |-> 3, shutter |-> 3, save |-> 2]
    /\ Len(store) = 2
    /\ cameraPosition = "front"
    /\ Val(capturedImage).location = Fix(1, 0)
    /\ location = Some(Fix(1, 0))

\* A step in which a query settles with an error.
LoadFailedStep == queries' = queries - 1 /\ lastLoad'.outcome # "loaded"

\* C22: when the query fails, loadPhotos leaves the photo list, the selected
\* photo and the region as they were, and ends in its catch block (the error
\* is logged, nothing is thrown on).
C22_FailedQueryChangesNothing ==
    [][LoadFailedStep =>
        /\ lastLoad'.outcome = "failed"
        /\ photos' = photos
        /\ selectedPhoto' = selectedPhoto
        /\ region' = region
        /\ UNCHANGED <<permissionsGranted, permCalls, store>>]_vars

\* A query failed after an earlier one had filled the list and a thumbnail
\* had been selected: photo, selection and tight region are still there.
C22_Witness ==
    /\ lastLoad.outcome = "failed"
    /\ Len(photos) = 1
    /\ selectedPhoto = Some(photos[1])
    /\ region = TightRegion(photos[1])
    /\ queries = 0

\* A step in which a requestPermissions invocation completes.
PermCompletes == lastPerm' # lastPerm

\* C23 (as claimed): when an invocation of requestPermissions completes, the
\* readiness flag of its hook equals the value it returned, also when a check
\* or request throws, when the platform has no permission definitions and
\* when invocations overlap.
C23_FlagEqualsReturned ==
    [][PermCompletes => permissionsGranted'[lastPerm'.hook] = lastPerm'.returned]_vars

====
